---- MODULE Spec2Model ----
(***************************************************************************)
(* Model of CryptoNetworkAnalyzerNoJava (crypto_network_analysis_no_java): *)
(* the correlation graph builder, the transfer-entropy edge filter, the    *)
(* first-match grouping of _find_asset_combinations and the result record  *)
(* of identify_highly_correlated_assets.                                   *)
(*                                                                         *)
(* Floats are modelled as records [nan, val]: val counts tenths, nan marks *)
(* the IEEE not-a-number, whose comparisons are all false.                 *)
(***************************************************************************)
EXTENDS Integers, Sequences, FiniteSets, TLC

VARIABLES
    pc,                  \* position of the modelled call
    price_data,          \* self.price_data: [columns, corr]
    config,              \* self.config: a dict, keys may be missing
    network_results,     \* self.network_results: None or the oracle's result
    correlation_network, \* value returned by analyze_correlation_network
    results,             \* value returned by identify_highly_correlated_assets
    correlated_pairs,    \* parameter of _find_asset_combinations
    te_connections,      \* parameter of _find_asset_combinations
    asset_groups,        \* local dict of _find_asset_combinations (ids 0,1,..)
    te_groups,           \* local dict of _find_asset_combinations (ids 0,1,..)
    combinations,        \* local list of _find_asset_combinations
    idx,                 \* number of edges the running loop has processed
    fetched,             \* the frame returned by get_token_prices
    fetch_ok,            \* value returned by fetch_and_preprocess_data
    config_arg,          \* the config argument of the constructor
    entry,               \* which main() runs: "launcher" or "module"
    started,             \* the stages main() has begun, in order
    files,               \* the output files written so far
    exit_code            \* the status handed to the operating system

vars == <<pc, price_data, config, network_results, correlation_network,
          results, correlated_pairs, te_connections, asset_groups, te_groups,
          combinations, idx, fetched, fetch_ok, config_arg, entry, started,
          files, exit_code>>

----------------------------------------------------------------------------
(* Bounds *)

MaxCols == 3          \* columns of price_data
MaxOracleEdges == 2   \* edges in the oracle's edge list, flow-filter runs
MaxPipelineEdges == 1 \* edges in the oracle's edge list, whole-pipeline runs
MaxFusionEdges == 3   \* edges handed to _find_asset_combinations, both lists together

Columns == <<"A", "B", "C", "D">>
FusionAssets == {Columns[i] : i \in 1..Len(Columns)}

----------------------------------------------------------------------------
(* Python values *)

None == [none |-> TRUE]
EmptyDict == [k \in {} |-> 0]

\* d.get(key, default)
Get(d, key, default) == IF key \in DOMAIN d THEN d[key] ELSE default

NaN == [nan |-> TRUE, val |-> 0]
Num(v) == [nan |-> FALSE, val |-> v]

\* abs(x)
Abs(x) == IF x.nan THEN NaN ELSE Num(IF x.val < 0 THEN -x.val ELSE x.val)

\* x >= y, false when either side is NaN
GE(x, y) == ~x.nan /\ ~y.nan /\ x.val >= y.val

\* x < y, false when either side is NaN
LT(x, y) == ~x.nan /\ ~y.nan /\ x.val < y.val

\* _default_config, the options this model reads
DefaultConfig ==
    [max_tokens |-> 30, time_hours |-> 72, cmi_estimator |-> "PythonKraskovCMI",
     correlation_threshold |-> Num(6), te_threshold |-> Num(5)]

\* no fetch, no constructor call and no main() is modelled in this run
NoRun ==
    /\ fetched = None
    /\ fetch_ok = FALSE
    /\ config_arg = None
    /\ entry = "none"
    /\ started = <<>>
    /\ files = {}
    /\ exit_code = 0

UnchangedRun == UNCHANGED <<fetched, fetch_ok, config_arg, entry, started,
                            files, exit_code>>

RECURSIVE SeqToSetOfSeqs(_, _)
\* all sequences over S of length at most k
SeqToSetOfSeqs(S, k) ==
    IF k = 0 THEN {<<>>}
    ELSE LET shorter == SeqToSetOfSeqs(S, k - 1)
         IN shorter \cup {Append(s, x) : s \in {t \in shorter : Len(t) = k - 1}, x \in S}

----------------------------------------------------------------------------
(* _find_asset_combinations *)

\* variant: the scan tests the first endpoint only
MatchingFirstEndpointOnly(groups, a, b) ==
    {g \in 1..Len(groups) : a \in groups[g]}

\* the inner scan: ids of the groups containing either endpoint
Matching(groups, a, b) ==
    {g \in 1..Len(groups) : a \in groups[g] \/ b \in groups[g]}

Min(S) == CHOOSE m \in S : \A x \in S : m <= x

Max(S) == CHOOSE m \in S : \A x \in S : m >= x

\* variant: the scan lacks its break and keeps the last matching id
FoundGroupLastMatch(groups, a, b) ==
    IF Matching(groups, a, b) = {} THEN 0 ELSE Max(Matching(groups, a, b))

\* found_group: the first matching id in insertion order, 0 for None
FoundGroup(groups, a, b) ==
    IF Matching(groups, a, b) = {} THEN 0 ELSE Min(Matching(groups, a, b))

\* variant: the edge always goes to the oldest group
ProcessEdgeIntoOldest(groups, a, b) ==
    IF groups # <<>>
    THEN [groups EXCEPT ![1] = @ \cup {a, b}]
    ELSE Append(groups, {a, b})

\* one iteration of the grouping loop
ProcessEdge(groups, a, b) ==
    IF FoundGroup(groups, a, b) # 0
    THEN [groups EXCEPT ![FoundGroup(groups, a, b)] = @ \cup {a, b}]
    ELSE Append(groups, {a, b})

\* variant: "high" only above 3 members
StrengthLabelAboveThree(size) == IF size > 3 THEN "high" ELSE "medium"

StrengthLabel(size) == IF size >= 3 THEN "high" ELSE "medium"

Cluster(tag, group) ==
    [type |-> tag, assets |-> group, size |-> Cardinality(group),
     strength |-> StrengthLabel(Cardinality(group))]

RECURSIVE EmitClustersReversed(_, _)
\* variant: each record is inserted at the front of the list
EmitClustersReversed(tag, groups) ==
    IF groups = <<>> THEN <<>>
    ELSE IF Cardinality(Head(groups)) >= 2
         THEN EmitClustersReversed(tag, Tail(groups)) \o <<[type |-> tag,
                  assets |-> Head(groups), size |-> Cardinality(Head(groups)),
                  strength |-> IF Cardinality(Head(groups)) >= 3 THEN "high" ELSE "medium"]>>
         ELSE EmitClustersReversed(tag, Tail(groups))

RECURSIVE EmitClusters(_, _)
\* the conversion loop: one record per group with at least 2 assets
EmitClusters(tag, groups) ==
    IF groups = <<>> THEN <<>>
    ELSE IF Cardinality(Head(groups)) >= 2
         THEN <<Cluster(tag, Head(groups))>> \o EmitClusters(tag, Tail(groups))
         ELSE EmitClusters(tag, Tail(groups))

RECURSIVE GroupPairs(_, _)
\* the correlation grouping loop over pairs[1..k]
GroupPairs(pairs, k) ==
    IF k = 0 THEN <<>>
    ELSE ProcessEdge(GroupPairs(pairs, k - 1), pairs[k].asset1, pairs[k].asset2)

RECURSIVE GroupConns(_, _)
\* the TE grouping loop over conns[1..k]
GroupConns(conns, k) ==
    IF k = 0 THEN <<>>
    ELSE ProcessEdge(GroupConns(conns, k - 1), conns[k].source, conns[k].target)

\* the whole function
FindAssetCombinations(pairs, conns) ==
    EmitClusters("correlation_based", GroupPairs(pairs, Len(pairs)))
    \o EmitClusters("te_based", GroupConns(conns, Len(conns)))

\* inputs: distinct unordered pairs, asset1 before asset2 in column order
ColIndex(a) == CHOOSE i \in 1..Len(Columns) : Columns[i] = a

PairRecords ==
    {[asset1 |-> a, asset2 |-> b] : a, b \in FusionAssets} \
    {p \in [asset1 : FusionAssets, asset2 : FusionAssets] :
        ColIndex(p.asset1) >= ColIndex(p.asset2)}

ConnRecords ==
    {c \in [source : FusionAssets, target : FusionAssets] : c.source # c.target}

NoDup(s) == \A i, j \in 1..Len(s) : i # j => s[i] # s[j]

InitFusion ==
    /\ pc = "corr_loop"
    /\ \E k \in 0..MaxFusionEdges :
          /\ correlated_pairs \in {s \in SeqToSetOfSeqs(PairRecords, k) :
                                      Len(s) = k /\ NoDup(s)}
          /\ te_connections \in SeqToSetOfSeqs(ConnRecords, MaxFusionEdges - k)
    /\ asset_groups = <<>>
    /\ te_groups = <<>>
    /\ combinations = <<>>
    /\ idx = 0
    /\ NoRun
    /\ price_data = None
    /\ config = DefaultConfig
    /\ network_results = None
    /\ correlation_network = None
    /\ results = None

UnchangedObject ==
    /\ UNCHANGED <<price_data, config, network_results, correlation_network, results>>
    /\ UnchangedRun

\* one iteration of "for pair in correlated_pairs"
CorrEdgeStep ==
    /\ pc = "corr_loop"
    /\ idx < Len(correlated_pairs)
    /\ asset_groups' = ProcessEdge(asset_groups,
                                   correlated_pairs[idx + 1].asset1,
                                   correlated_pairs[idx + 1].asset2)
    /\ idx' = idx + 1
    /\ UNCHANGED <<pc, correlated_pairs, te_connections, te_groups, combinations>>
    /\ UnchangedObject

\* "for group_id, group in asset_groups.items()": append the correlation clusters
CorrEmit ==
    /\ pc = "corr_loop"
    /\ idx = Len(correlated_pairs)
    /\ combinations' = combinations \o EmitClusters("correlation_based", asset_groups)
    /\ pc' = "te_loop"
    /\ idx' = 0
    /\ UNCHANGED <<correlated_pairs, te_connections, asset_groups, te_groups>>
    /\ UnchangedObject

\* one iteration of "for conn in te_connections"
TeEdgeStep ==
    /\ pc = "te_loop"
    /\ idx < Len(te_connections)
    /\ te_groups' = ProcessEdge(te_groups,
                                te_connections[idx + 1].source,
                                te_connections[idx + 1].target)
    /\ idx' = idx + 1
    /\ UNCHANGED <<pc, correlated_pairs, te_connections, asset_groups, combinations>>
    /\ UnchangedObject

\* variant: the second conversion loop iterates asset_groups again
TeEmitOverAssetGroups ==
    /\ pc = "te_loop"
    /\ idx = Len(te_connections)
    /\ combinations' = combinations \o EmitClusters("te_based", asset_groups)
    /\ pc' = "returned"
    /\ UNCHANGED <<idx, correlated_pairs, te_connections, asset_groups, te_groups>>
    /\ UnchangedObject

\* "for group_id, group in te_groups.items()": append the TE clusters, return
TeEmit ==
    /\ pc = "te_loop"
    /\ idx = Len(te_connections)
    /\ combinations' = combinations \o EmitClusters("te_based", te_groups)
    /\ pc' = "returned"
    /\ UNCHANGED <<idx, correlated_pairs, te_connections, asset_groups, te_groups>>
    /\ UnchangedObject

NextFusion == CorrEdgeStep \/ CorrEmit \/ TeEdgeStep \/ TeEmit

SpecFusion == InitFusion /\ [][NextFusion]_vars

----------------------------------------------------------------------------
(* analyze_correlation_network *)

\* list.sort(key=lambda x: x[key], reverse=True): stable, descending; each element goes
\* before the first element whose key is smaller than its own
SortDescBy(s, key) ==
    LET Insert(sorted, x) ==
            LET smaller == {i \in 1..Len(sorted) : LT(sorted[i][key], x[key])}
                pos == IF smaller = {} THEN Len(sorted) + 1 ELSE Min(smaller)
            IN SubSeq(sorted, 1, pos - 1) \o <<x>> \o SubSeq(sorted, pos, Len(sorted))
        sortedPrefix[k \in 0..Len(s)] ==
            IF k = 0 THEN <<>> ELSE Insert(sortedPrefix[k - 1], s[k])
    IN sortedPrefix[Len(s)]

\* variant of the sort: descending, but an element goes before the elements
\* of equal key (what sorting ascending and reversing the list does)
SortDescTiesReversed(s, key) ==
    LET Insert(sorted, x) ==
            LET notLarger == {i \in 1..Len(sorted) : ~LT(x[key], sorted[i][key])}
                pos == IF notLarger = {} THEN Len(sorted) + 1 ELSE Min(notLarger)
            IN SubSeq(sorted, 1, pos - 1) \o <<x>> \o SubSeq(sorted, pos, Len(sorted))
        sortedPrefix[k \in 0..Len(s)] ==
            IF k = 0 THEN <<>> ELSE Insert(sortedPrefix[k - 1], s[k])
    IN sortedPrefix[Len(s)]

RECURSIVE UpperTriangle(_, _)
\* the pairs (i, j), i < j, in the order of the two nested range() loops
UpperTriangle(i, n) ==
    IF i >= n THEN <<>>
    ELSE [k \in 1..(n - i) |-> <<i, i + k>>] \o UpperTriangle(i + 1, n)

\* variant: the signed coefficient is compared, abs() forgotten
PassesThresholdSigned(corr, threshold) == GE(corr, threshold)

\* variant: the test written as "not (abs(corr) < threshold)"
PassesThresholdNotLess(corr, threshold) == ~LT(Abs(corr), threshold)

\* variant: the comparison inverted
PassesThresholdInverted(corr, threshold) == GE(threshold, Abs(corr))

\* the test of line 279
PassesThreshold(corr, threshold) == GE(Abs(corr), threshold)

PairEntry(pd, p) ==
    [asset1 |-> pd.columns[p[1]], asset2 |-> pd.columns[p[2]],
     correlation |-> pd.corr[p], abs_correlation |-> Abs(pd.corr[p])]

\* variant: the list sorted ascending and then reversed
HighlyCorrelatedTiesReversed(pd, threshold) ==
    LET kept == SelectSeq(UpperTriangle(1, Len(pd.columns)),
                          LAMBDA p : PassesThreshold(pd.corr[p], threshold))
    IN SortDescTiesReversed([k \in 1..Len(kept) |-> PairEntry(pd, kept[k])],
                            "abs_correlation")

\* the list built by the nested loops, then sorted in place
HighlyCorrelated(pd, threshold) ==
    LET kept == SelectSeq(UpperTriangle(1, Len(pd.columns)),
                          LAMBDA p : PassesThreshold(pd.corr[p], threshold))
    IN SortDescBy([k \in 1..Len(kept) |-> PairEntry(pd, kept[k])], "abs_correlation")

\* variant: the density is taken over ordered pairs of columns
AnalyzeCorrelationNetworkOrderedPairs(pd, cfg) ==
    LET n == Len(pd.columns) IN
    IF n >= 2 /\ "correlation_threshold" \notin DOMAIN cfg THEN EmptyDict
    ELSE IF (n * (n - 1)) \div 2 = 0 THEN EmptyDict
    ELSE LET hc == HighlyCorrelated(pd, cfg.correlation_threshold) IN
         [correlation_matrix |-> pd.corr, highly_correlated_pairs |-> hc,
          network_density |-> [num |-> Len(hc), den |-> n * (n - 1)]]

\* the returned dict; {} when the body raises: KeyError on the first pair when
\* the config has no correlation_threshold, ZeroDivisionError when the number
\* of possible pairs is 0
AnalyzeCorrelationNetwork(pd, cfg) ==
    LET n == Len(pd.columns) IN
    IF n >= 2 /\ "correlation_threshold" \notin DOMAIN cfg THEN EmptyDict
    ELSE IF (n * (n - 1)) \div 2 = 0 THEN EmptyDict
    ELSE LET hc == HighlyCorrelated(pd, cfg.correlation_threshold) IN
         [correlation_matrix |-> pd.corr,
          highly_correlated_pairs |-> hc,
          network_density |-> [num |-> Len(hc), den |-> (n * (n - 1)) \div 2]]

\* inputs: the correlation values a pair of columns can have
CorrValues == {NaN, Num(-9), Num(3), Num(7), Num(9)}
CorrThresholds == {Num(0), Num(7), Num(9)}

\* DataFrame.corr(): symmetric, 1 on the diagonal
CorrMatrices(n, values) ==
    {[p \in (1..n) \X (1..n) |->
        IF p[1] = p[2] THEN Num(10)
        ELSE IF p[1] < p[2] THEN u[p] ELSE u[<<p[2], p[1]>>]] :
     u \in [{q \in (1..n) \X (1..n) : q[1] < q[2]} -> values]}

PriceData(maxCols, values) ==
    UNION {{[columns |-> SubSeq(Columns, 1, n), corr |-> m] :
                m \in CorrMatrices(n, values)} : n \in 1..maxCols}

\* the options this model reads, each present or missing
Configs(corrThresholds, teThresholds) ==
    {[cmi_estimator |-> "PythonKraskovCMI"] @@ c @@ t :
        c \in {EmptyDict} \cup {[correlation_threshold |-> x] : x \in corrThresholds},
        t \in {EmptyDict} \cup {[te_threshold |-> x] : x \in teThresholds}}

InitCorr ==
    /\ pc = "ready"
    /\ price_data \in PriceData(MaxCols, CorrValues)
    /\ config \in Configs(CorrThresholds, {})
    /\ network_results = None
    /\ correlation_network = None
    /\ results = None
    /\ correlated_pairs = <<>>
    /\ te_connections = <<>>
    /\ asset_groups = <<>>
    /\ te_groups = <<>>
    /\ combinations = <<>>
    /\ idx = 0
    /\ NoRun

\* a call of analyze_correlation_network
CallAnalyzeCorrelationNetwork ==
    /\ pc = "ready"
    /\ correlation_network' = AnalyzeCorrelationNetwork(price_data, config)
    /\ pc' = "analysed"
    /\ UNCHANGED <<price_data, config, network_results, results, correlated_pairs,
                   te_connections, asset_groups, te_groups, combinations, idx>>
    /\ UnchangedRun

NextCorr == CallAnalyzeCorrelationNetwork

SpecCorr == InitCorr /\ [][NextCorr]_vars

----------------------------------------------------------------------------
(* identify_highly_correlated_assets *)

\* variant: strict comparison
TePassesStrict(edge, threshold) == LT(threshold, edge[3])

\* the test of line 316; edge = (source index, target index, TE[, p-value])
TePasses(edge, threshold) == GE(edge[3], threshold)

\* the dict appended for a retained edge; edge indices count from 0
TeEntry(pd, edge) ==
    [source |-> pd.columns[edge[1] + 1],
     target |-> pd.columns[edge[2] + 1],
     transfer_entropy |-> edge[3],
     p_value |-> IF Len(edge) > 3 THEN edge[4] ELSE None]

\* variant: the threshold is looked up before the "is not None" test
TeFilterRaisesEager(cfg, nr) == "te_threshold" \notin DOMAIN cfg

\* KeyError at line 316: raised by the first edge when the config has no
\* te_threshold
TeFilterRaises(cfg, nr) ==
    /\ nr # None
    /\ nr.edge_list # <<>>
    /\ "te_threshold" \notin DOMAIN cfg

\* variant: the list sorted ascending and then reversed
TeConnectionsTiesReversed(pd, cfg, nr) ==
    IF nr = None THEN <<>>
    ELSE LET kept == SelectSeq(nr.edge_list,
                               LAMBDA e : TePasses(e, cfg.te_threshold))
         IN SortDescTiesReversed([k \in 1..Len(kept) |-> TeEntry(pd, kept[k])],
                                 "transfer_entropy")

\* lines 312-325: the retained edges, sorted in place
TeConnections(pd, cfg, nr) ==
    IF nr = None THEN <<>>
    ELSE LET kept == SelectSeq(nr.edge_list,
                               LAMBDA e : TePasses(e, cfg.te_threshold))
         IN SortDescBy([k \in 1..Len(kept) |-> TeEntry(pd, kept[k])],
                       "transfer_entropy")

\* the default of correlation_network.get('network_density', 0)
ZeroDensity == [num |-> 0, den |-> 1]

\* the returned dict; {} when the body raises
IdentifyHighlyCorrelatedAssets(pd, cfg, nr) ==
    IF TeFilterRaises(cfg, nr) THEN EmptyDict
    ELSE LET te == TeConnections(pd, cfg, nr)
             cn == AnalyzeCorrelationNetwork(pd, cfg)
             hc == Get(cn, "highly_correlated_pairs", <<>>)
             combos == FindAssetCombinations(hc, te)
         IN [correlation_pairs |-> hc,
             te_connections |-> te,
             asset_combinations |-> combos,
             correlation_network |-> cn,
             summary |-> [total_assets |-> Len(pd.columns),
                          highly_correlated_pairs |-> Len(hc),
                          te_connections |-> Len(te),
                          asset_combinations |-> Len(combos),
                          network_density |-> Get(cn, "network_density", ZeroDensity)]]

\* inputs: what the oracle can return for n processes
TeStrengths == {Num(4), Num(6)}
TeThresholds == {Num(4), Num(6)}
PValues == {Num(1)}
PipelineCorrValues == {NaN, Num(9)}
PipelineCorrThresholds == {Num(7)}
PipelineTeThresholds == {Num(6)}

OracleEdges(n) ==
    LET ends == {q \in (0..(n - 1)) \X (0..(n - 1)) : q[1] # q[2]} IN
    {<<q[1], q[2], v>> : q \in ends, v \in TeStrengths}
    \cup {<<q[1], q[2], v, pv>> : q \in ends, v \in TeStrengths, pv \in PValues}

OracleEdgeLists(n, maxEdges) == SeqToSetOfSeqs(OracleEdges(n), maxEdges)

Init ==
    /\ pc = "start"
    /\ price_data \in PriceData(MaxCols, PipelineCorrValues)
    /\ config \in Configs(PipelineCorrThresholds, PipelineTeThresholds)
    /\ network_results = None
    /\ correlation_network = None
    /\ results = None
    /\ correlated_pairs = <<>>
    /\ te_connections = <<>>
    /\ asset_groups = <<>>
    /\ te_groups = <<>>
    /\ combinations = <<>>
    /\ idx = 0
    /\ NoRun

UnchangedLocals ==
    /\ UNCHANGED <<correlated_pairs, te_connections, asset_groups, te_groups,
                   combinations, idx>>
    /\ UnchangedRun

\* analyze_network, the oracle returning a result: True
AnalyzeNetwork ==
    /\ pc = "start"
    /\ \E el \in OracleEdgeLists(Len(price_data.columns), MaxPipelineEdges) :
          network_results' = [edge_list |-> el]
    /\ pc' = "network_done"
    /\ UNCHANGED <<price_data, config, correlation_network, results>>
    /\ UnchangedLocals

\* analyze_network, the oracle raising: False, network_results stays None
AnalyzeNetworkFails ==
    /\ pc = "start"
    /\ pc' = "network_failed"
    /\ UNCHANGED <<price_data, config, network_results, correlation_network, results>>
    /\ UnchangedLocals

\* a call of identify_highly_correlated_assets
CallIdentify ==
    /\ pc \in {"start", "network_done", "network_failed"}
    /\ results' = IdentifyHighlyCorrelatedAssets(price_data, config, network_results)
    /\ pc' = "done"
    /\ UNCHANGED <<price_data, config, network_results, correlation_network>>
    /\ UnchangedLocals

Next == AnalyzeNetwork \/ AnalyzeNetworkFails \/ CallIdentify

Spec == Init /\ [][Next]_vars

\* the flow filter alone: analyze_network has returned an edge list and no
\* pair of columns is correlated
InitFlow ==
    /\ pc = "network_done"
    /\ price_data \in PriceData(MaxCols, {NaN})
    /\ config \in {c \in Configs(PipelineCorrThresholds, TeThresholds) :
                      "correlation_threshold" \in DOMAIN c}
    /\ network_results \in
          {[edge_list |-> el] :
              el \in OracleEdgeLists(Len(price_data.columns), MaxOracleEdges)}
    /\ correlation_network = None
    /\ results = None
    /\ correlated_pairs = <<>>
    /\ te_connections = <<>>
    /\ asset_groups = <<>>
    /\ te_groups = <<>>
    /\ combinations = <<>>
    /\ idx = 0
    /\ NoRun

NextFlow == CallIdentify

SpecFlow == InitFlow /\ [][NextFlow]_vars

----------------------------------------------------------------------------
(* fetch_and_preprocess_data and _preprocess_data *)

\* closing prices of the candles, and the budget of cells of a fetched frame
PriceLevels == {1, 2}
MaxPriceCells == 11

RECURSIVE Product(_)
Product(S) ==
    IF S = {} THEN 1
    ELSE LET x == CHOOSE y \in S : TRUE IN x * Product(S \ {x})

\* returns are held exactly, in units of 1 / ReturnScale
ReturnScale == Product(PriceLevels)

\* a DataFrame: column labels and rows of cells
Frame(cols, rows) == [columns |-> cols, rows |-> rows]

\* DataFrame.empty: some axis has length 0
Empty(f) == Len(f.columns) = 0 \/ Len(f.rows) = 0

\* what get_token_prices can return: the candles aligned by dropna(), or
\* pd.DataFrame() when the request fails
PriceFrames(maxCells) ==
    {Frame(<<>>, <<>>)}
    \cup UNION {{Frame(SubSeq(Columns, 1, q[1]), r) :
                    r \in [1..q[2] -> [1..q[1] -> PriceLevels]]} :
                q \in {z \in (1..Len(Columns)) \X (0..maxCells) :
                          z[1] * z[2] <= maxCells}}

\* price_data.pct_change().dropna(): the first row is NaN and is dropped
PctChange(f) ==
    Frame(f.columns,
          [t \in 1..(Len(f.rows) - 1) |->
              [c \in 1..Len(f.columns) |->
                  Num((ReturnScale * (f.rows[t + 1][c] - f.rows[t][c]))
                         \div f.rows[t][c])]])

\* count, sum and sum of squares of the non-NaN cells of column c (skipna)
Count(f, c) == Cardinality({t \in 1..Len(f.rows) : ~f.rows[t][c].nan})

RECURSIVE ColSum(_, _, _)
ColSum(f, c, t) ==
    IF t = 0 THEN 0
    ELSE ColSum(f, c, t - 1) + (IF f.rows[t][c].nan THEN 0 ELSE f.rows[t][c].val)

RECURSIVE ColSumSq(_, _, _)
ColSumSq(f, c, t) ==
    IF t = 0 THEN 0
    ELSE ColSumSq(f, c, t - 1)
         + (IF f.rows[t][c].nan THEN 0 ELSE f.rows[t][c].val * f.rows[t][c].val)

\* returns.std() of column c (ddof = 1): NaN below two values, else the
\* square root of VarNum / VarDen
StdIsNaN(f, c) == Count(f, c) < 2
VarNum(f, c) ==
    Count(f, c) * ColSumSq(f, c, Len(f.rows))
    - ColSum(f, c, Len(f.rows)) * ColSum(f, c, Len(f.rows))
VarDen(f, c) == Count(f, c) * (Count(f, c) - 1)

\* np.abs(x) < 3 * std; when |x| = 3 * std > 0 exactly the rounding of the
\* square root decides, tie is that outcome
WithinThreeStd(f, c, x, tie) ==
    /\ ~x.nan
    /\ ~StdIsNaN(f, c)
    /\ \/ x.val * x.val * VarDen(f, c) < 3 * 3 * VarNum(f, c)
       \/ tie /\ VarNum(f, c) > 0
              /\ x.val * x.val * VarDen(f, c) = 3 * 3 * VarNum(f, c)

\* returns[mask]: a cell whose test is False becomes NaN, every row stays
RemoveOutliers(f, tie) ==
    Frame(f.columns,
          [t \in 1..Len(f.rows) |->
              [c \in 1..Len(f.columns) |->
                  IF WithinThreeStd(f, c, f.rows[t][c], tie)
                  THEN f.rows[t][c] ELSE NaN]])

\* a standardised value: NaN, or its sign and its square num / den
NaNScore == [nan |-> TRUE, sgn |-> 0, num |-> 0, den |-> 1]

Sign(v) == IF v > 0 THEN 1 ELSE IF v < 0 THEN -1 ELSE 0

\* (x - mean) / std of one cell; 0 / 0 and anything with NaN is NaN
Score(f, c, x) ==
    IF x.nan \/ StdIsNaN(f, c) \/ VarNum(f, c) = 0 THEN NaNScore
    ELSE LET d == Count(f, c) * x.val - ColSum(f, c, Len(f.rows)) IN
         [nan |-> FALSE, sgn |-> Sign(d),
          num |-> d * d * (Count(f, c) - 1),
          den |-> Count(f, c) * VarNum(f, c)]

\* (returns - returns.mean()) / returns.std()
Standardize(f) ==
    Frame(f.columns,
          [t \in 1..Len(f.rows) |->
              [c \in 1..Len(f.columns) |-> Score(f, c, f.rows[t][c])]])

\* _preprocess_data: the value assigned to self.price_data
PreprocessData(f, tie) == Standardize(RemoveOutliers(PctChange(f), tie))

InitPre ==
    /\ pc = "fetch"
    /\ price_data = None
    /\ config = DefaultConfig
    /\ network_results = None
    /\ correlation_network = None
    /\ results = None
    /\ correlated_pairs = <<>>
    /\ te_connections = <<>>
    /\ asset_groups = <<>>
    /\ te_groups = <<>>
    /\ combinations = <<>>
    /\ idx = 0
    /\ NoRun

UnchangedAnalysis ==
    UNCHANGED <<config, network_results, correlation_network, results,
                correlated_pairs, te_connections, asset_groups, te_groups,
                combinations, idx, config_arg, entry, started, files, exit_code>>

\* no token information, no token passes the filter, or an exception: False
FetchFails ==
    /\ pc = "fetch"
    /\ fetch_ok' = FALSE
    /\ pc' = "fetch_returned"
    /\ UNCHANGED <<price_data, fetched>>
    /\ UnchangedAnalysis

\* get_token_prices returns a frame of at most max_tokens columns; an empty
\* frame makes fetch_and_preprocess_data return False
GetTokenPrices ==
    /\ pc = "fetch"
    /\ \E f \in PriceFrames(MaxPriceCells) :
          /\ Len(f.columns) <= config.max_tokens
          /\ fetched' = f
          /\ price_data' = f
          /\ pc' = IF Empty(f) THEN "fetch_returned" ELSE "preprocess"
    /\ fetch_ok' = FALSE
    /\ UnchangedAnalysis

\* self._preprocess_data() and return True
CallPreprocessData ==
    /\ pc = "preprocess"
    /\ \E tie \in BOOLEAN : price_data' = PreprocessData(price_data, tie)
    /\ fetch_ok' = TRUE
    /\ pc' = "fetch_returned"
    /\ UNCHANGED fetched
    /\ UnchangedAnalysis

NextPre == FetchFails \/ GetTokenPrices \/ CallPreprocessData

SpecPre == InitPre /\ [][NextPre]_vars

----------------------------------------------------------------------------
(* The constructor, and the configuration the launcher builds for it *)

\* "config or ...": None and {} are falsy
Truthy(arg) == arg # None /\ arg # EmptyDict

\* __init__: self.config = config or self._default_config()
Construct(arg) == IF Truthy(arg) THEN arg ELSE DefaultConfig

\* a dict with the one key name, or without it
OptionalKey(name, values) ==
    {EmptyDict} \cup {[k \in {name} |-> v] : v \in values}

\* configs a caller writes by hand, like custom_config of test_configuration
CallerConfigs ==
    {None}
    \cup {m @@ h @@ c @@ t @@ e :
            m \in OptionalKey("max_tokens", {15, 30}),
            h \in OptionalKey("time_hours", {24, 72}),
            c \in OptionalKey("correlation_threshold", {Num(6), Num(8)}),
            t \in OptionalKey("te_threshold", {Num(5), Num(6)}),
            e \in OptionalKey("cmi_estimator", {"PythonKraskovCMI"})}

\* what load_config returns: {} when the file cannot be read, else its JSON
FileConfigs ==
    {EmptyDict,
     [data_processing |-> [max_tokens |-> 50, min_volume |-> 10000]],
     [max_tokens |-> 50, time_hours |-> 24],
     [max_tokens |-> 50, time_hours |-> 24, cmi_estimator |-> "PythonKraskovCMI",
      correlation_threshold |-> Num(7), te_threshold |-> Num(6)]}

\* the parsed command line: --tokens --hours --correlation --te --estimator
CommandLines ==
    [max_tokens : {15, 20}, time_hours : {72},
     correlation_threshold : {Num(6), Num(8)}, te_threshold : {Num(5)},
     cmi_estimator : {"PythonKraskovCMI", "JidtKraskovCMI"}]

\* the update of config['data_processing'] and config['network_analysis']
LauncherConfig(file, args) ==
    [data_processing |->
        [max_tokens |-> args.max_tokens, time_hours |-> args.time_hours,
         correlation_threshold |-> args.correlation_threshold,
         te_threshold |-> args.te_threshold]
        @@ Get(file, "data_processing", EmptyDict),
     network_analysis |->
        [cmi_estimator |-> args.cmi_estimator]
        @@ Get(file, "network_analysis", EmptyDict)]
    @@ file

InitConfig ==
    /\ pc \in {"caller", "launcher"}
    /\ price_data = None
    /\ config = None
    /\ network_results = None
    /\ correlation_network = None
    /\ results = None
    /\ correlated_pairs = <<>>
    /\ te_connections = <<>>
    /\ asset_groups = <<>>
    /\ te_groups = <<>>
    /\ combinations = <<>>
    /\ idx = 0
    /\ NoRun

UnchangedByConfig ==
    UNCHANGED <<price_data, network_results, correlation_network, results,
                correlated_pairs, te_connections, asset_groups, te_groups,
                combinations, idx, fetched, fetch_ok, entry, started, files,
                exit_code>>

\* a caller picks the argument of CryptoNetworkAnalyzerNoJava(...)
CallerPassesConfig ==
    /\ pc = "caller"
    /\ config_arg' \in CallerConfigs
    /\ pc' = "new"
    /\ UNCHANGED config
    /\ UnchangedByConfig

\* the launcher loads the file and applies the command line
LauncherBuildsConfig ==
    /\ pc = "launcher"
    /\ \E file \in FileConfigs, args \in CommandLines :
          config_arg' = LauncherConfig(file, args)
    /\ pc' = "new"
    /\ UNCHANGED config
    /\ UnchangedByConfig

\* CryptoNetworkAnalyzerNoJava(config_arg)
CallConstructor ==
    /\ pc = "new"
    /\ config' = Construct(config_arg)
    /\ pc' = "constructed"
    /\ UNCHANGED config_arg
    /\ UnchangedByConfig

NextConfig == CallerPassesConfig \/ LauncherBuildsConfig \/ CallConstructor

SpecConfig == InitConfig /\ [][NextConfig]_vars

----------------------------------------------------------------------------
(* The two entry points: main() of the launcher and main() of the module *)

Stages == <<"fetch", "network", "identify", "output">>

PlotFile == "crypto_network_analysis_no_java.png"
ReportFile == "crypto_network_report_no_java.md"
ResultsFile == "analysis_results_no_java.json"

\* the launcher returns 1 and passes it to sys.exit; the module's main()
\* returns None and the interpreter ends with status 0
FailureStatus(e) == IF e = "launcher" THEN 1 ELSE 0

\* json.dump raises TypeError on the DataFrame under
\* results['correlation_network']['correlation_matrix']
JsonSerializable(r) == "correlation_matrix" \notin DOMAIN r.correlation_network

\* the options fetch_and_preprocess_data and analyze_network index self.config with
FetchOptions == {"max_tokens", "time_hours"}
NetworkOptions == {"cmi_estimator"}

InitMain ==
    /\ pc = "main"
    /\ entry \in {"launcher", "module"}
    /\ config_arg \in
          IF entry = "module" THEN {None}
          ELSE {LauncherConfig(file, args) : file \in FileConfigs, args \in CommandLines}
    /\ config = Construct(config_arg)
    /\ price_data = None
    /\ network_results = None
    /\ correlation_network = None
    /\ results = None
    /\ correlated_pairs = <<>>
    /\ te_connections = <<>>
    /\ asset_groups = <<>>
    /\ te_groups = <<>>
    /\ combinations = <<>>
    /\ idx = 0
    /\ fetched = None
    /\ fetch_ok = FALSE
    /\ started = <<>>
    /\ files = {}
    /\ exit_code = 0

UnchangedByMain ==
    UNCHANGED <<config, config_arg, entry, correlation_network, correlated_pairs,
                te_connections, asset_groups, te_groups, combinations, idx,
                fetched>>

\* stage 1 returns True: self.price_data holds the standardised returns
MainFetch ==
    /\ pc = "main"
    /\ FetchOptions \subseteq DOMAIN config
    /\ started' = Append(started, "fetch")
    /\ price_data' \in PriceData(MaxCols, {NaN})
    /\ fetch_ok' = TRUE
    /\ pc' = "fetched"
    /\ UNCHANGED <<network_results, results, files, exit_code>>
    /\ UnchangedByMain

\* stage 1 returns False: "return 1" or "return"
MainFetchFails ==
    /\ pc = "main"
    /\ started' = Append(started, "fetch")
    /\ exit_code' = FailureStatus(entry)
    /\ pc' = "exit_failed"
    /\ UNCHANGED <<price_data, network_results, results, files, fetch_ok>>
    /\ UnchangedByMain

\* stage 2 returns True
MainAnalyzeNetwork ==
    /\ pc = "fetched"
    /\ NetworkOptions \subseteq DOMAIN config
    /\ started' = Append(started, "network")
    /\ \E el \in OracleEdgeLists(Len(price_data.columns), MaxPipelineEdges) :
          network_results' = [edge_list |-> el]
    /\ pc' = "analysed"
    /\ UNCHANGED <<price_data, results, files, exit_code, fetch_ok>>
    /\ UnchangedByMain

\* stage 2 returns False
MainAnalyzeNetworkFails ==
    /\ pc = "fetched"
    /\ started' = Append(started, "network")
    /\ exit_code' = FailureStatus(entry)
    /\ pc' = "exit_failed"
    /\ UNCHANGED <<price_data, network_results, results, files, fetch_ok>>
    /\ UnchangedByMain

\* stage 3 and "if not results"
MainIdentify ==
    /\ pc = "analysed"
    /\ started' = Append(started, "identify")
    /\ results' = IdentifyHighlyCorrelatedAssets(price_data, config, network_results)
    /\ IF results' = EmptyDict
       THEN exit_code' = FailureStatus(entry) /\ pc' = "exit_failed"
       ELSE exit_code' = exit_code /\ pc' = "output"
    /\ UNCHANGED <<price_data, network_results, files, fetch_ok>>
    /\ UnchangedByMain

\* stage 4 of the launcher: visualize_results and generate_report swallow
\* their own failures, then the results file is opened and json.dump runs
LauncherOutput ==
    /\ pc = "output"
    /\ entry = "launcher"
    /\ started' = Append(started, "output")
    /\ \E plot, report, opened \in BOOLEAN :
          /\ files' = (IF plot THEN {PlotFile} ELSE {})
                      \cup (IF report THEN {ReportFile} ELSE {})
                      \cup (IF opened THEN {ResultsFile} ELSE {})
          /\ IF opened /\ JsonSerializable(results)
             THEN exit_code' = 0 /\ pc' = "exit_ok"
             ELSE exit_code' = 1 /\ pc' = "exit_failed"
    /\ UNCHANGED <<price_data, network_results, results, fetch_ok>>
    /\ UnchangedByMain

\* stage 4 of the module's main(): plot and report, no results file
ModuleOutput ==
    /\ pc = "output"
    /\ entry = "module"
    /\ started' = Append(started, "output")
    /\ \E plot, report \in BOOLEAN :
          files' = (IF plot THEN {PlotFile} ELSE {})
                   \cup (IF report THEN {ReportFile} ELSE {})
    /\ exit_code' = 0
    /\ pc' = "exit_ok"
    /\ UNCHANGED <<price_data, network_results, results, fetch_ok>>
    /\ UnchangedByMain

NextMain ==
    \/ MainFetch \/ MainFetchFails
    \/ MainAnalyzeNetwork \/ MainAnalyzeNetworkFails
    \/ MainIdentify
    \/ LauncherOutput \/ ModuleOutput

SpecMain == InitMain /\ [][NextMain]_vars

----------------------------------------------------------------------------
(* Graph notions used to state the grouping claims *)

RECURSIVE ReachFrom(_, _)
\* the vertices joined to S by a path of edges of E (E: a set of 2-sets)
ReachFrom(S, E) ==
    LET T == S \cup UNION {e \in E : e \cap S # {}}
    IN IF T = S THEN S ELSE ReachFrom(T, E)

\* the connected components of the graph whose vertices are the endpoints of E
ComponentsOf(E) == {ReachFrom({v}, E) : v \in UNION E}

\* the undirected edges of the first k correlated pairs / TE connections
PairEdges(pairs, k) == {{pairs[i].asset1, pairs[i].asset2} : i \in 1..k}
ConnEdges(conns, k) == {{conns[i].source, conns[i].target} : i \in 1..k}

\* the asset sets of the emitted clusters of one tag
ClusterSets(tag) ==
    {combinations[i].assets : i \in {j \in 1..Len(combinations) : combinations[j].type = tag}}

----------------------------------------------------------------------------
(* C1: for each origin tag and every edge order, the emitted clusters are   *)
(* exactly the connected components (size >= 2) of the undirected graph of  *)
(* that tag's edges.                                                        *)
C1_ClustersAreComponents ==
    pc = "returned" =>
        /\ ClusterSets("correlation_based")
             = {c \in ComponentsOf(PairEdges(correlated_pairs, Len(correlated_pairs))) :
                    Cardinality(c) >= 2}
        /\ ClusterSets("te_based")
             = {c \in ComponentsOf(ConnEdges(te_connections, Len(te_connections))) :
                    Cardinality(c) >= 2}

----------------------------------------------------------------------------
(* C2: processing edge (a, b) adds both endpoints to the first group, in    *)
(* creation order, that contains a or b and leaves every other group        *)
(* unchanged (no merge, no removal); when no group contains either endpoint *)
(* a new group {a, b} is appended after all existing groups.                *)
FirstMatchUpdate(before, after, a, b) ==
    IF \E g \in 1..Len(before) : a \in before[g] \/ b \in before[g]
    THEN /\ Len(after) = Len(before)
         /\ \E g \in 1..Len(before) :
              /\ a \in before[g] \/ b \in before[g]
              /\ \A h \in 1..(g - 1) : a \notin before[h] /\ b \notin before[h]
              /\ after[g] = before[g] \cup {a, b}
              /\ \A h \in 1..Len(before) : h # g => after[h] = before[h]
    ELSE /\ Len(after) = Len(before) + 1
         /\ after[Len(after)] = {a, b}
         /\ \A h \in 1..Len(before) : after[h] = before[h]

C2_Step ==
    /\ (pc = "corr_loop" /\ idx' = idx + 1) =>
          /\ FirstMatchUpdate(asset_groups, asset_groups',
                              correlated_pairs[idx + 1].asset1,
                              correlated_pairs[idx + 1].asset2)
          /\ te_groups' = te_groups
    /\ (pc = "te_loop" /\ idx' = idx + 1) =>
          /\ FirstMatchUpdate(te_groups, te_groups',
                              te_connections[idx + 1].source,
                              te_connections[idx + 1].target)
          /\ asset_groups' = asset_groups

C2_FirstMatchAttach == [][C2_Step]_vars

\* an edge whose endpoints lay in two different groups has been processed and
\* both groups are still there
C2_Witness ==
    /\ pc = "corr_loop"
    /\ idx = 3
    /\ Len(asset_groups) = 2
    /\ asset_groups[1] \cap asset_groups[2] # {}
    /\ Cardinality(asset_groups[1]) = 3

----------------------------------------------------------------------------
(* C3: every emitted cluster has at least 2 assets, and every asset of a    *)
(* cluster is an endpoint of an input edge of the cluster's own tag.        *)
C3_ClusterSizeAndOrigin ==
    \A i \in 1..Len(combinations) :
        LET c == combinations[i] IN
        /\ Cardinality(c.assets) >= 2
        /\ c.size >= 2
        /\ c.type = "correlation_based" =>
              c.assets \subseteq UNION PairEdges(correlated_pairs, Len(correlated_pairs))
        /\ c.type = "te_based" =>
              c.assets \subseteq UNION ConnEdges(te_connections, Len(te_connections))

\* both kinds of cluster were emitted, over different assets
C3_Witness ==
    /\ pc = "returned"
    /\ \E i, j \in 1..Len(combinations) :
         /\ combinations[i].type = "correlation_based"
         /\ combinations[j].type = "te_based"
         /\ combinations[i].assets \cap combinations[j].assets = {}

----------------------------------------------------------------------------
(* Notions used to state the correlation-edge claims *)

\* analyze_correlation_network has returned its dict (not the {} of a failure)
CorrReturned ==
    pc = "analysed" /\ "highly_correlated_pairs" \in DOMAIN correlation_network

NumCols == Len(price_data.columns)
ColumnPairs == {q \in (1..NumCols) \X (1..NumCols) : q[1] < q[2]}

\* the edge list is for the pair of columns q
EdgeOf(e, q) == e.asset1 = price_data.columns[q[1]] /\ e.asset2 = price_data.columns[q[2]]

\* position of an edge in the row-major enumeration of the upper triangle
EnumRank(e) == ColIndex(e.asset1) * (Len(Columns) + 1) + ColIndex(e.asset2)

\* |x| as a number; only used on values that are not NaN
Magnitude(x) == IF x.val < 0 THEN -x.val ELSE x.val

RECURSIVE IsSubsequence(_, _)
IsSubsequence(a, b) ==
    IF a = <<>> THEN TRUE
    ELSE IF b = <<>> THEN FALSE
    ELSE IF Head(a) = Head(b) THEN IsSubsequence(Tail(a), Tail(b))
    ELSE IsSubsequence(a, Tail(b))

----------------------------------------------------------------------------
(* C4: an edge is emitted for an unordered pair of distinct columns (i < j) *)
(* if and only if |corr(i,j)| >= correlation_threshold; no self-pair is     *)
(* emitted and no unordered pair is emitted more than once.                 *)
C4_EdgeIffAboveThreshold ==
    CorrReturned =>
        LET hc == correlation_network.highly_correlated_pairs
            t == config.correlation_threshold
        IN /\ \A q \in ColumnPairs :
                (\E k \in 1..Len(hc) : EdgeOf(hc[k], q))
                <=> (~price_data.corr[q].nan /\ Magnitude(price_data.corr[q]) >= t.val)
           /\ \A k \in 1..Len(hc) :
                /\ hc[k].asset1 # hc[k].asset2
                /\ \E q \in ColumnPairs : EdgeOf(hc[k], q)
           /\ \A k, l \in 1..Len(hc) :
                k # l => {hc[k].asset1, hc[k].asset2} # {hc[l].asset1, hc[l].asset2}

\* a negative coefficient made an edge while another pair stayed below the threshold
C4_Witness ==
    /\ CorrReturned
    /\ config.correlation_threshold = Num(7)
    /\ \E k \in 1..Len(correlation_network.highly_correlated_pairs) :
         correlation_network.highly_correlated_pairs[k].correlation = Num(-9)
    /\ \E q \in ColumnPairs : price_data.corr[q] = Num(3)

----------------------------------------------------------------------------
(* C5: the returned edges are ordered by non-increasing absolute            *)
(* correlation, and edges of equal absolute correlation keep the row-major  *)
(* order of the upper-triangle enumeration.                                 *)
C5_SortedStable ==
    CorrReturned =>
        LET hc == correlation_network.highly_correlated_pairs IN
        \A k, l \in 1..Len(hc) :
            k < l =>
                /\ hc[k].abs_correlation.val >= hc[l].abs_correlation.val
                /\ hc[k].abs_correlation.val = hc[l].abs_correlation.val
                      => EnumRank(hc[k]) < EnumRank(hc[l])

\* the sort moved a later pair to the front and left two tied pairs in place
C5_Witness ==
    /\ CorrReturned
    /\ Len(correlation_network.highly_correlated_pairs) = 3
    /\ LET hc == correlation_network.highly_correlated_pairs IN
         /\ hc[1].asset1 = "B" /\ hc[1].asset2 = "C"
         /\ hc[2].abs_correlation = hc[3].abs_correlation
         /\ hc[1].abs_correlation # hc[2].abs_correlation

----------------------------------------------------------------------------
(* C6: a pair whose correlation is NaN never produces an edge, for any      *)
(* threshold including 0, and no NaN reaches the sort key of the edge list. *)
C6_NaNExcluded ==
    CorrReturned =>
        LET hc == correlation_network.highly_correlated_pairs IN
        /\ \A q \in ColumnPairs :
              price_data.corr[q].nan => ~\E k \in 1..Len(hc) : EdgeOf(hc[k], q)
        /\ \A k \in 1..Len(hc) : ~hc[k].abs_correlation.nan /\ ~hc[k].correlation.nan

\* threshold 0, one pair undefined, the other pairs emitted
C6_Witness ==
    /\ CorrReturned
    /\ config.correlation_threshold = Num(0)
    /\ \E q \in ColumnPairs : price_data.corr[q].nan
    /\ Len(correlation_network.highly_correlated_pairs) = 2

----------------------------------------------------------------------------
(* C7: for the same matrix and thresholds t1 <= t2 the edge sequence at t2  *)
(* is a subsequence of the one at t1, so raising the threshold never        *)
(* increases the number of edges.                                           *)
C7_ThresholdMonotone ==
    CorrReturned =>
        LET hc == correlation_network.highly_correlated_pairs
            t == config.correlation_threshold
        IN \A t2 \in CorrThresholds :
              LET hc2 == HighlyCorrelated(price_data, t2) IN
              /\ t.val <= t2.val => IsSubsequence(hc2, hc) /\ Len(hc2) <= Len(hc)
              /\ t2.val <= t.val => IsSubsequence(hc, hc2) /\ Len(hc) <= Len(hc2)

\* the run's edges lie strictly between those of a lower and a higher threshold
C7_Witness ==
    /\ CorrReturned
    /\ config.correlation_threshold = Num(7)
    /\ Len(HighlyCorrelated(price_data, Num(9))) = 1
    /\ Len(correlation_network.highly_correlated_pairs) = 2
    /\ Len(HighlyCorrelated(price_data, Num(0))) = 3

----------------------------------------------------------------------------
(* Notions used to state the flow-edge claims *)

\* identify_highly_correlated_assets has returned its dict (not the {} of a
\* failure) after the oracle delivered an edge list
FlowReturned ==
    /\ pc = "done"
    /\ network_results # None
    /\ "te_connections" \in DOMAIN results

\* positions of the oracle edges whose strength reaches the threshold
StrongEdges ==
    {k \in 1..Len(network_results.edge_list) :
        network_results.edge_list[k][3].val >= config.te_threshold.val}

\* entry x of the result records oracle edge e
Records(x, e) ==
    /\ x.source = price_data.columns[e[1] + 1]
    /\ x.target = price_data.columns[e[2] + 1]
    /\ x.transfer_entropy = e[3]
    /\ x.p_value = (IF Len(e) = 4 THEN e[4] ELSE None)

\* the ways to read the result as a one-to-one record of oracle edges
Origins ==
    {f \in [1..Len(results.te_connections) -> 1..Len(network_results.edge_list)] :
        /\ \A i, j \in DOMAIN f : i # j => f[i] # f[j]
        /\ \A i \in DOMAIN f :
              Records(results.te_connections[i], network_results.edge_list[f[i]])}

----------------------------------------------------------------------------
(* C8: an oracle edge is retained if and only if its strength >=            *)
(* te_threshold; the significance value never excludes an edge, is carried  *)
(* through unchanged when present and recorded as None when the edge has no *)
(* fourth field.                                                            *)
C8_RetainedIffStrong ==
    FlowReturned =>
        \E f \in Origins : {f[i] : i \in DOMAIN f} = StrongEdges

\* an edge at the threshold was kept with its p-value, a weaker one dropped
C8_Witness ==
    /\ FlowReturned
    /\ Len(network_results.edge_list) = 2
    /\ Len(results.te_connections) = 1
    /\ results.te_connections[1].transfer_entropy = config.te_threshold
    /\ results.te_connections[1].p_value = Num(1)

----------------------------------------------------------------------------
(* C9: the retained flow edges are ordered by non-increasing strength, and  *)
(* retained edges of equal strength keep the order of the oracle's list.    *)
C9_FlowSortedStable ==
    FlowReturned =>
        LET te == results.te_connections IN
        /\ \A i, j \in 1..Len(te) :
              i < j => te[i].transfer_entropy.val >= te[j].transfer_entropy.val
        /\ \E f \in Origins :
              \A i, j \in 1..Len(te) :
                 (i < j /\ te[i].transfer_entropy = te[j].transfer_entropy)
                    => f[i] < f[j]

\* two different edges of equal strength were retained
C9_Witness ==
    /\ FlowReturned
    /\ Len(results.te_connections) = 2
    /\ results.te_connections[1].transfer_entropy
         = results.te_connections[2].transfer_entropy
    /\ results.te_connections[1].source # results.te_connections[2].source

----------------------------------------------------------------------------
(* C10: with no oracle result or an empty edge list the call completes      *)
(* without error: the flow-edge sequence is empty, no te_based cluster is   *)
(* emitted, the summary reports te_connections = 0, and the correlation     *)
(* edges and correlation_based clusters are those of any other flow input.  *)
NoFlowInput == network_results = None \/ network_results = [edge_list |-> <<>>]

OfType(combos, tag) == SelectSeq(combos, LAMBDA c : c.type = tag)

C10_EmptyFlowInput ==
    (pc = "done" /\ NoFlowInput) =>
        /\ results # EmptyDict
        /\ results.te_connections = <<>>
        /\ OfType(results.asset_combinations, "te_based") = <<>>
        /\ results.summary.te_connections = 0
        /\ \A el \in OracleEdgeLists(Len(price_data.columns), MaxPipelineEdges) :
              LET other == IdentifyHighlyCorrelatedAssets(
                               price_data, config, [edge_list |-> el])
              IN other # EmptyDict =>
                    /\ other.correlation_pairs = results.correlation_pairs
                    /\ OfType(other.asset_combinations, "correlation_based")
                         = OfType(results.asset_combinations, "correlation_based")

\* the oracle returned an empty list, no te_threshold is configured, and a
\* correlation cluster was still reported
C10_Witness ==
    /\ pc = "done"
    /\ network_results = [edge_list |-> <<>>]
    /\ "te_threshold" \notin DOMAIN config
    /\ results # EmptyDict
    /\ Len(results.asset_combinations) = 1
    /\ results.summary.te_connections = 0

----------------------------------------------------------------------------
(* C11: every cluster's size field is the number of distinct assets in it,  *)
(* and its strength label is "high" if and only if that size is >= 3 and    *)
(* "medium" otherwise (size exactly 2); the label depends only on the size. *)
C11_SizeAndStrength ==
    \A i \in 1..Len(combinations) :
        LET c == combinations[i] IN
        /\ c.size = Cardinality(c.assets)
        /\ c.strength = "high" <=> c.size >= 3
        /\ c.strength # "high" => (c.strength = "medium" /\ c.size = 2)
        /\ \A j \in 1..Len(combinations) :
              combinations[j].size = c.size => combinations[j].strength = c.strength

\* a cluster of three assets and a cluster of two were emitted
C11_Witness ==
    /\ pc = "returned"
    /\ \E i, j \in 1..Len(combinations) :
         /\ combinations[i].size = 3 /\ combinations[i].strength = "high"
         /\ combinations[j].size = 2 /\ combinations[j].strength = "medium"

----------------------------------------------------------------------------
(* C12: every correlation_based cluster precedes every te_based cluster;    *)
(* within a tag the clusters appear in the order in which the first edge of *)
(* each group opened it; a set of assets that is both a correlation group   *)
(* and a flow group is emitted twice, once per tag.                         *)

\* positions of the edges that open a group: neither endpoint was seen before
Openers(edges) ==
    {k \in 1..Len(edges) : edges[k] \cap UNION {edges[h] : h \in 1..(k - 1)} = {}}

NthSmallest(S, n) == CHOOSE k \in S : Cardinality({x \in S : x < k}) = n - 1

\* clusters cs are, in order, the groups opened by the opening edges
InCreationOrder(cs, edges) ==
    /\ Len(cs) = Cardinality(Openers(edges))
    /\ \A i \in 1..Len(cs) : edges[NthSmallest(Openers(edges), i)] \subseteq cs[i].assets

PairEdgeSeq == [k \in 1..Len(correlated_pairs) |->
                   {correlated_pairs[k].asset1, correlated_pairs[k].asset2}]
ConnEdgeSeq == [k \in 1..Len(te_connections) |->
                   {te_connections[k].source, te_connections[k].target}]

C12_OutputOrder ==
    pc = "returned" =>
        /\ \A i, j \in 1..Len(combinations) :
              (combinations[i].type = "correlation_based"
                 /\ combinations[j].type = "te_based") => i < j
        /\ InCreationOrder(OfType(combinations, "correlation_based"), PairEdgeSeq)
        /\ InCreationOrder(OfType(combinations, "te_based"), ConnEdgeSeq)
        /\ \A g \in 1..Len(asset_groups), h \in 1..Len(te_groups) :
              asset_groups[g] = te_groups[h] =>
                 \E i, j \in 1..Len(combinations) :
                    /\ i < j
                    /\ combinations[i].assets = asset_groups[g]
                    /\ combinations[i].type = "correlation_based"
                    /\ combinations[j].assets = asset_groups[g]
                    /\ combinations[j].type = "te_based"

\* two correlation clusters in creation order, then a flow cluster equal to the first
C12_Witness ==
    /\ pc = "returned"
    /\ Len(combinations) = 3
    /\ combinations[1].type = "correlation_based"
    /\ combinations[2].type = "correlation_based"
    /\ combinations[3].type = "te_based"
    /\ combinations[3].assets = combinations[1].assets
    /\ correlated_pairs[1].asset1 = "C"

----------------------------------------------------------------------------
(* C13: the correlation_based clusters are determined by the correlation    *)
(* edge sequence alone and the te_based clusters by the flow edge sequence  *)
(* alone, and swapping source and target of any flow edge leaves the        *)
(* emitted cluster sequence unchanged.                                      *)
SwapAt(conns, i) ==
    [conns EXCEPT ![i] = [source |-> conns[i].target, target |-> conns[i].source]]

C13_IndependentUndirected ==
    pc = "returned" =>
        /\ \A other \in SeqToSetOfSeqs(ConnRecords, 1) :
              OfType(FindAssetCombinations(correlated_pairs, other), "correlation_based")
                = OfType(combinations, "correlation_based")
        /\ \A other \in SeqToSetOfSeqs(PairRecords, 1) :
              OfType(FindAssetCombinations(other, te_connections), "te_based")
                = OfType(combinations, "te_based")
        /\ \A i \in 1..Len(te_connections) :
              FindAssetCombinations(correlated_pairs, SwapAt(te_connections, i))
                = combinations

\* two flow edges with a common target were grouped next to a correlated pair
C13_Witness ==
    /\ pc = "returned"
    /\ Len(correlated_pairs) = 1
    /\ Len(te_connections) = 2
    /\ te_connections[1].target = te_connections[2].target
    /\ te_connections[1].source # te_connections[2].source
    /\ Len(combinations) = 2
    /\ combinations[2].size = 3

----------------------------------------------------------------------------
(* C14: the network_density of the summary is the number of correlation     *)
(* edges divided by n(n-1)/2 for n >= 2 assets; for a single asset it is 0   *)
(* and identify_highly_correlated_assets still returns a results record,    *)
(* no exception and no NaN.                                                 *)
IdentifyReturned == pc = "done" /\ results # EmptyDict

\* the column pairs whose |corr| reaches the configured threshold
StrongPairs ==
    {q \in ColumnPairs :
        /\ ~price_data.corr[q].nan
        /\ Magnitude(price_data.corr[q]) >= config.correlation_threshold.val}

C14_NetworkDensity ==
    /\ IdentifyReturned /\ NumCols >= 2 =>
          LET d == results.summary.network_density IN
          /\ d.den # 0
          /\ d.num * ((NumCols * (NumCols - 1)) \div 2)
               = Len(results.correlation_pairs) * d.den
          /\ "correlation_threshold" \in DOMAIN config =>
                Len(results.correlation_pairs) = Cardinality(StrongPairs)
    /\ pc = "done" /\ NumCols = 1 =>
          /\ results # EmptyDict
          /\ results.summary.network_density.num = 0
          /\ results.summary.network_density.den # 0
          /\ results.summary.total_assets = 1

\* a density strictly between 0 and 1 was reported
C14_Witness ==
    /\ IdentifyReturned
    /\ NumCols = 3
    /\ results.summary.network_density.num = 2
    /\ results.summary.network_density.den = 3

----------------------------------------------------------------------------
(* C15: a failure inside analyze_correlation_network reaches the caller of  *)
(* identify_highly_correlated_assets as a failure; a returned result with   *)
(* an empty correlation edge list and density 0 only stands for a run in    *)
(* which no pair reaches the threshold.                                     *)
C15_FailureSurfaced ==
    (IdentifyReturned /\ NumCols >= 2 /\ results.correlation_pairs = <<>>) =>
        /\ "correlation_threshold" \in DOMAIN config
        /\ StrongPairs = {}

----------------------------------------------------------------------------
(* C16: after _preprocess_data the return matrix holds no missing value:    *)
(* whenever any asset's return in a row fails |r| < 3 sigma the whole row   *)
(* is removed, so the rows left are exactly the rows in which every asset   *)
(* passes the test.                                                         *)
Preprocessed == pc = "fetch_returned" /\ fetch_ok

NoMissingValue(f) ==
    \A t \in 1..Len(f.rows), c \in 1..Len(f.columns) : ~f.rows[t][c].nan

\* the rows of the returns of the fetched prices in which every column passes
CleanRows(tie) ==
    LET r == PctChange(fetched) IN
    {t \in 1..Len(r.rows) :
        \A c \in 1..Len(r.columns) : WithinThreeStd(r, c, r.rows[t][c], tie)}

C16_RowsWithOutliersRemoved ==
    Preprocessed =>
        /\ NoMissingValue(price_data)
        /\ \E tie \in BOOLEAN : Len(price_data.rows) = Cardinality(CleanRows(tie))

----------------------------------------------------------------------------
(* C17: if after clipping some column has zero standard deviation the       *)
(* preprocessing fails (DegenerateSeriesError); it never completes with a   *)
(* matrix that contains NaN or infinite values.                             *)
DegenerateAfterClipping(tie) ==
    LET r == RemoveOutliers(PctChange(fetched), tie) IN
    \E c \in 1..Len(r.columns) : ~StdIsNaN(r, c) /\ VarNum(r, c) = 0

C17_DegenerateSeriesFails ==
    (pc = "fetch_returned" /\ fetched # None /\ ~Empty(fetched)
       /\ \A tie \in BOOLEAN : DegenerateAfterClipping(tie)) => ~fetch_ok

----------------------------------------------------------------------------
(* C18: fetch_and_preprocess_data reports failure whenever fewer than 2     *)
(* assets or fewer than 2 aligned observations remain; it never returns     *)
(* success with a single-asset or a fewer-than-2-row matrix.                *)
C18_InsufficientDataFails ==
    Preprocessed =>
        /\ Len(price_data.columns) >= 2
        /\ Len(price_data.rows) >= 2
        /\ Len(fetched.rows) >= 2

----------------------------------------------------------------------------
(* C19: the stages run in the order fetch/preprocess, network analysis,     *)
(* identification, output; a stage starts only if every earlier stage       *)
(* succeeded; the first failing stage ends the run with a non-zero exit     *)
(* code, no later stage runs and no plot, report or results file is         *)
(* written.                                                                 *)
C19_FailFastNoPartialOutput ==
    /\ Len(started) <= Len(Stages)
    /\ started = SubSeq(Stages, 1, Len(started))
    /\ pc = "exit_failed" => (exit_code # 0 /\ files = {})
    /\ pc = "exit_ok" => (started = Stages /\ exit_code = 0)

----------------------------------------------------------------------------
(* C20: the configuration passed to the constructor is merged with the      *)
(* defaults: after construction every option has the supplied value if it   *)
(* was supplied and its default otherwise, also for the configuration the   *)
(* launcher builds from the command line.                                   *)

\* the options of arg, wherever the caller or the launcher put them
SuppliedOptions(arg) ==
    IF arg = None THEN EmptyDict
    ELSE LET dp == Get(arg, "data_processing", EmptyDict)
             na == Get(arg, "network_analysis", EmptyDict)
             flat == dp @@ na @@ arg
         IN [k \in DOMAIN flat \cap DOMAIN DefaultConfig |-> flat[k]]

C20_ConfigMergedWithDefaults ==
    pc = "constructed" =>
        \A k \in DOMAIN DefaultConfig :
            /\ k \in DOMAIN config
            /\ config[k] = Get(SuppliedOptions(config_arg), k, DefaultConfig[k])

----------------------------------------------------------------------------
(* C21: after any sequence of edges the clusters emitted for one origin tag *)
(* are pairwise disjoint: no asset belongs to two correlation_based         *)
(* clusters and no asset belongs to two te_based clusters.                  *)
C21_ClustersOfATagDisjoint ==
    pc = "returned" =>
        \A i, j \in 1..Len(combinations) :
            (i # j /\ combinations[i].type = combinations[j].type) =>
                combinations[i].assets \cap combinations[j].assets = {}

----------------------------------------------------------------------------
(* C22: after every processed edge each group is a connected set of the     *)
(* undirected graph of its tag's edges processed so far, and the union of   *)
(* the groups of a tag is the set of all endpoints of those edges.          *)

\* how many edges of each tag the loops have processed
CorrProcessed == IF pc = "corr_loop" THEN idx ELSE Len(correlated_pairs)
TeProcessed ==
    IF pc = "corr_loop" THEN 0
    ELSE IF pc = "te_loop" THEN idx ELSE Len(te_connections)

\* any two members of S are joined by a path of edges of E
ConnectedIn(S, E) == \A v \in S : S \subseteq ReachFrom({v}, E)

GroupsCoverConnected(groups, E) ==
    /\ \A g \in 1..Len(groups) : groups[g] # {} /\ ConnectedIn(groups[g], E)
    /\ UNION {groups[g] : g \in 1..Len(groups)} = UNION E

C22_GroupsConnectedAndCovering ==
    /\ GroupsCoverConnected(asset_groups, PairEdges(correlated_pairs, CorrProcessed))
    /\ GroupsCoverConnected(te_groups, ConnEdges(te_connections, TeProcessed))

\* the third edge joined an asset of the second group to the first group
C22_Witness ==
    /\ pc = "corr_loop"
    /\ idx = 3
    /\ Len(asset_groups) = 2
    /\ Cardinality(asset_groups[1]) = 3
    /\ asset_groups[1] \cap asset_groups[2] # {}

====
